---- MODULE Spec2Model ----
(***************************************************************************)
(* The checkpointed ingestion orchestrator of movie_repository/infra/      *)
(* fetch.py (abstract_run_with_checkpoint) and the three source adapters   *)
(* that drive it (Bilibili, Tencent, IQiYi), as a state machine.           *)
(*                                                                         *)
(* Every invocation is a coroutine on one event loop.  A step of the model *)
(* is the code that runs between two library awaits (aiohttp session and   *)
(* request context managers, asyncio.gather, insert_many, asyncio.sleep);  *)
(* awaiting a coroutine of this repository is a plain call and starts no   *)
(* new step.                                                               *)
(***************************************************************************)
EXTENDS Integers, Sequences, FiniteSets, TLC

\* ---------------------------------------------------------------- bounds
MaxInv == 2        \* invocations of run_async that are ever started
MaxPage == 2       \* pages 1..MaxPage
MaxK == 2          \* items in one list response
MaxTicks == 2      \* clock ticks (of 500 microseconds each)
MaxDocs == 45      \* documents the stored collection holds when it is read
MaxReadPage == 3   \* the read API is asked for pages up to MaxReadPage
MaxPagesize == 21  \* and for page sizes up to MaxPagesize
MaxLen == 3        \* characters of a raw score string

Invs == 1..MaxInv
Pages == 1..MaxPage

\* ------------------------------------------------------------- constants
Platforms == {"bilibili", "tencent", "iqiyi"}
PENDING == "PENDING"
FINISHED == "FINISHED"
BATCH_TASK == "BATCH.TASK"
DB_TASK == "DB.TASK"
NoKey == <<>>
NoTime == -1

\* Bilibili.pagesize, Tencent.pagesize, IQiYi.pagesize
pagesize(platform) ==
    CASE platform = "bilibili" -> 60
      [] platform = "tencent" -> 30
      [] platform = "iqiyi" -> 24

\* ----------------------------------------------------------------- state
VARIABLES
    inv,            \* per invocation: the coroutine's locals and position
    params,         \* per platform: the page held by the class-level params/payload
    keys,           \* per category: how many keys generate_key has handed out
    batch_traces,   \* the batch trace log (append-only sequence of events)
    db_traces,      \* the persistence trace log
    collection,     \* the sink: the documents of the mongodb collection
    cache,          \* raw snapshots: (platform, page) -> the invocation that wrote last
    now,            \* the wall clock, in microseconds
    recorder,       \* whether a write of the trace recorder may raise
    movies,         \* the read API: the last /movies request and its response
    score           \* score coercion: a raw score value and what it was coerced to

vars == <<inv, params, keys, batch_traces, db_traces, collection, cache, now,
          recorder, movies, score>>

\* what no step of an invocation touches
aside == <<recorder, movies, score>>

\* datetime.now().strftime('%Y-%m-%d %H%M%S.%f')[:-3]: microseconds cut to
\* milliseconds (a fixed-width string whose order is that of the number)
strftime(t) == t \div 1000

IdleInv ==
    [pc |-> "idle", platform |-> "none", page |-> 0,
     batch_task_id |-> NoKey, batch_begin_time |-> NoTime,
     db_task_id |-> NoKey, db_begin_time |-> NoTime,
     req_page |-> 0, resp |-> "none", subs |-> <<>>, hist |-> <<>>,
     batch_results |-> <<>>, documents |-> <<>>,
     insert_calls |-> 0, fetch_result |-> "none", error |-> "none"]

NoRequest == [page |-> 0, pagesize |-> 0, code |-> "none", data |-> <<>>]
NoScore == [by |-> "none", value |-> <<>>, result |-> "none"]

\* the ingestion side before the first invocation
InitIngestion ==
    /\ inv = [i \in Invs |-> IdleInv]
    /\ params = [p \in Platforms |-> IF p = "tencent" THEN 1 ELSE 0]
    /\ keys = [c \in {BATCH_TASK, DB_TASK} |-> 0]
    /\ batch_traces = <<>>
    /\ db_traces = <<>>
    /\ cache = [k \in Platforms \X Pages |-> 0]
    /\ now = 0

Init ==
    /\ InitIngestion
    /\ collection = <<>>
    /\ recorder = "reliable"
    /\ movies = NoRequest
    /\ score = NoScore

\* ------------------------------------------------- warmup, init_config
\* generate_key(category): a key no earlier call in the category returned
generate_key(category) == <<category, keys[category] + 1>>

\* the counter after one more generate_key(category)
keys_after(category) == [keys EXCEPT ![category] = @ + 1]

TraceEvent(task_id, source, batch, size, status, begin, end, by) ==
    [task_id |-> task_id, source |-> source, batch |-> batch, pagesize |-> size,
     status |-> status, begin |-> begin, end |-> end, by |-> by]

\* WarmupHandler.put_batch_trace / put_db_trace: append one immutable event
put_batch_trace(log, event) == Append(log, event)
put_db_trace(log, event) == Append(log, event)

\* write_in(warmup, platform, page, pagesize, json_object): the snapshot of
\* (platform, page) is overwritten by the latest capture
write_in(c, platform, page, by) == [c EXCEPT ![<<platform, page>>] = by]

\* --------------------------------------------- abstract_run_with_checkpoint
\* (mutant) the batch task key is built once and shared by every invocation
batch_task_key_shared == <<BATCH_TASK, 1>>

\* line 46: the batch task key
batch_task_key == generate_key(BATCH_TASK)

\* (mutant) the persistence task key is built once and shared by every invocation
db_task_key_shared == <<DB_TASK, 1>>

\* line 59: the persistence task key
db_task_key == generate_key(DB_TASK)

\* a write of the trace recorder raises: nothing in
\* abstract_run_with_checkpoint catches it, so the invocation ends there
recorder_raises(i, r, failed) ==
    inv' = [inv EXCEPT ![i] = [r EXCEPT !.pc = "raised", !.error = "recorder",
                                        !.hist = @ \o <<failed>>]]

\* lines 44-52: allocate the batch task_id, take the begin time, record
\* PENDING, call the adapter's fetch
checkpoint_begin(i, platform, page, pc) ==
    LET id == batch_task_key
        begin == strftime(now)
        r == [inv[i] EXCEPT !.platform = platform, !.page = page,
                            !.batch_task_id = id, !.batch_begin_time = begin]
    IN  /\ keys' = keys_after(BATCH_TASK)
        /\ \/ /\ batch_traces' = put_batch_trace(batch_traces,
                      TraceEvent(id, platform, page, pagesize(platform), PENDING,
                                 begin, NoTime, i))
              /\ inv' = [inv EXCEPT ![i] =
                            [r EXCEPT !.pc = pc,
                                      !.hist = @ \o <<"batch_pending", "fetch_start">>]]
           \/ \* line 49 raises
              /\ recorder = "faulty"
              /\ recorder_raises(i, r, "batch_pending_failed")
              /\ UNCHANGED batch_traces
        /\ UNCHANGED <<db_traces, collection, cache, now, aside>>

\* the callers start invocations one after another, in any number up to MaxInv
CanStart(i) ==
    /\ inv[i].pc = "idle"
    /\ \A j \in Invs : j < i => inv[j].pc # "idle"

\* Bilibili.run_async up to the first library await: lines 44-51, then
\* raw_fetch_async lines 136-137 write the page into the shared Bilibili.params
Bilibili_run_async(i, page) ==
    /\ CanStart(i)
    /\ checkpoint_begin(i, "bilibili", page, "session")
    /\ params' = IF inv'[i].pc = "raised" THEN params
                 ELSE [params EXCEPT !["bilibili"] = page]

\* Tencent.run_async up to the first library await (line 262, the session)
Tencent_run_async(i, page) ==
    /\ CanStart(i)
    /\ checkpoint_begin(i, "tencent", page, "session")
    /\ UNCHANGED params

\* IQiYi.run_async up to the first library await (line 290, the session)
IQiYi_run_async(i, page) ==
    /\ CanStart(i)
    /\ checkpoint_begin(i, "iqiyi", page, "session")
    /\ UNCHANGED params

\* ------------------------------------------------------ the top-level request
\* the request goes out carrying req_page; the coroutine now awaits the response
request_issued(i, req_page) ==
    /\ inv' = [inv EXCEPT ![i] = [@ EXCEPT !.pc = "request", !.req_page = req_page]]
    /\ UNCHANGED <<keys, batch_traces, db_traces, collection, cache, now, aside>>

\* the page a request built from the class-level params/payload carries
page_of_request(platform) == params'[platform]

\* Bilibili.raw_fetch_async lines 138-141: the session is entered and
\* session.get is handed the shared Bilibili.params
Bilibili_session_get(i) ==
    /\ inv[i].pc = "session"
    /\ inv[i].platform = "bilibili"
    /\ UNCHANGED params
    /\ request_issued(i, page_of_request("bilibili"))

\* Tencent.get_movies lines 199-203: the page is written into the shared
\* Tencent.payload and session.post is handed the payload
Tencent_get_movies_post(i) ==
    /\ inv[i].pc = "session"
    /\ inv[i].platform = "tencent"
    /\ params' = [params EXCEPT !["tencent"] = inv[i].page]
    /\ request_issued(i, page_of_request("tencent"))

\* IQiYi.raw_fetch_async lines 291-292: the page is written into the shared
\* IQiYi.params and session.get is handed the params
IQiYi_session_get(i) ==
    /\ inv[i].pc = "session"
    /\ inv[i].platform = "iqiyi"
    /\ params' = [params EXCEPT !["iqiyi"] = inv[i].page]
    /\ request_issued(i, page_of_request("iqiyi"))

\* ------------------------------------------------------------ the response
\* what a source may answer: the connection may fail; otherwise a status and
\* a body, which is not JSON, or JSON with a non-success code and no data, or
\* JSON lacking the data object or the list in it, or a list of n items one
\* of which lacks a required key, or a well-formed list of n items
Statuses == {200, 500}
Bodies == {"unparsable", "ret_error", "no_data", "no_list", "bad_item", "ok"}
Responses ==
    {[transport |-> FALSE, status |-> 0, body |-> "none", n |-> 0]}
    \cup {resp \in [transport : {TRUE}, status : Statuses, body : Bodies, n : 0..MaxK] :
            /\ resp.body \in {"unparsable", "ret_error", "no_data", "no_list"} => resp.n = 0
            /\ resp.body = "bad_item" => resp.n >= 1}

\* how a response reads at the top level: a failed connection, a status other
\* than 200 or a non-success code in the body is "non_success"; a body that is
\* not JSON or lacks part of the structure the adapter reads is "missing"
kind_of(resp) ==
    IF ~resp.transport \/ resp.status # 200 \/ resp.body = "ret_error"
    THEN "non_success"
    ELSE IF resp.body \in {"unparsable", "no_data", "no_list", "bad_item"}
    THEN "missing"
    ELSE "ok"

\* the MovieEntity list of n items of the requested page
entities(platform, page, n) ==
    [k \in 1..n |-> [source |-> platform, page |-> page, idx |-> k, oid |-> NoKey]]

\* line 56: documents = [asdict(movie) for movie in batch_results]
asdict(batch_results) == [k \in 1..Len(batch_results) |-> batch_results[k]]

\* (mutant) the batch FINISHED event is recorded in a finally block, so also
\* when the fetch raises
fetch_raises_after_finished(i, r) ==
    /\ inv' = [inv EXCEPT ![i] = [r EXCEPT !.pc = "raised", !.fetch_result = "raised",
                                            !.error = "fetch",
                                            !.hist = @ \o <<"fetch_raised">>]]
    /\ batch_traces' = put_batch_trace(batch_traces,
           TraceEvent(r.batch_task_id, r.platform, r.page, pagesize(r.platform),
                      FINISHED, r.batch_begin_time, strftime(now), i))
    /\ UNCHANGED <<keys, db_traces, collection, now, aside>>

\* the fetch raises: nothing in abstract_run_with_checkpoint catches it, so
\* the invocation ends and the error reaches the caller of run_async
fetch_raises(i, r) ==
    /\ inv' = [inv EXCEPT ![i] = [r EXCEPT !.pc = "raised", !.fetch_result = "raised",
                                            !.error = "fetch",
                                            !.hist = @ \o <<"fetch_raised">>]]
    /\ UNCHANGED <<keys, batch_traces, db_traces, collection, now, aside>>

\* (mutant) the FINISHED event takes a begin time of its own
batch_finished_event_new_begin(i, r) ==
    TraceEvent(r.batch_task_id, r.platform, r.page, pagesize(r.platform),
               FINISHED, strftime(now), strftime(now), i)

\* lines 53-55: the FINISHED event of the batch task_id
batch_finished_event(i, r) ==
    TraceEvent(r.batch_task_id, r.platform, r.page, pagesize(r.platform),
               FINISHED, r.batch_begin_time, strftime(now), i)

\* the fetch returns batch_results; lines 53-64: record the batch FINISHED,
\* flatten, allocate the persistence task_id, record its PENDING, call
\* collection.insert_many(documents)
fetch_returns(i, r, batch_results) ==
    LET id == db_task_key
        begin == strftime(now)
        documents == asdict(batch_results)
        got == [r EXCEPT !.fetch_result = "returned",
                         !.batch_results = batch_results,
                         !.hist = @ \o <<"fetch_end">>]
        flat == [got EXCEPT !.documents = documents,
                            !.db_task_id = id,
                            !.db_begin_time = begin,
                            !.hist = @ \o <<"batch_finished">>]
    IN  /\ \/ /\ batch_traces' = put_batch_trace(batch_traces, batch_finished_event(i, r))
              /\ keys' = keys_after(DB_TASK)
              /\ db_traces' = put_db_trace(db_traces,
                     TraceEvent(id, r.platform, r.page, pagesize(r.platform), PENDING,
                                begin, NoTime, i))
              /\ inv' = [inv EXCEPT ![i] =
                            [flat EXCEPT !.pc = "insert",
                                         !.insert_calls = @ + 1,
                                         !.hist = @ \o <<"db_pending", "insert_start">>]]
           \/ \* line 53 raises
              /\ recorder = "faulty"
              /\ recorder_raises(i, got, "batch_finished_failed")
              /\ UNCHANGED <<batch_traces, keys, db_traces>>
           \/ \* line 61 raises
              /\ recorder = "faulty"
              /\ batch_traces' = put_batch_trace(batch_traces, batch_finished_event(i, r))
              /\ keys' = keys_after(DB_TASK)
              /\ recorder_raises(i, flat, "db_pending_failed")
              /\ UNCHANGED db_traces
        /\ UNCHANGED <<collection, now, aside>>

\* (mutant) the batch FINISHED event is recorded when the enrichment starts,
\* before the fetch has ended
fetch_gathers_finished_early(i, r, n) ==
    /\ inv' = [inv EXCEPT ![i] = [r EXCEPT !.pc = "gather",
                                            !.subs = [k \in 1..n |-> "pending"]]]
    /\ batch_traces' = put_batch_trace(batch_traces, batch_finished_event(i, r))
    /\ UNCHANGED <<keys, db_traces, collection, now, aside>>

\* the fetch awaits asyncio.gather over n enrichment sub-requests
fetch_gathers(i, r, n) ==
    /\ inv' = [inv EXCEPT ![i] = [r EXCEPT !.pc = "gather",
                                            !.subs = [k \in 1..n |-> "pending"]]]
    /\ UNCHANGED <<keys, batch_traces, db_traces, collection, now, aside>>

\* Bilibili.raw_fetch_async lines 142-146 with handle_data lines 102-113
Bilibili_response(i) ==
    /\ inv[i].pc = "request"
    /\ inv[i].platform = "bilibili"
    /\ UNCHANGED params
    /\ \E resp \in Responses :
         LET r == [inv[i] EXCEPT !.resp = kind_of(resp)]
             rs == [r EXCEPT !.hist = @ \o <<"decoded", "snapshot">>]
         IN
         IF ~resp.transport
         THEN /\ fetch_raises(i, r)
              /\ UNCHANGED cache
         ELSE IF resp.status # 200
         THEN \* line 146: return []
              /\ fetch_returns(i, r, <<>>)
              /\ UNCHANGED cache
         ELSE IF resp.body = "unparsable"
         THEN \* line 143: response.json() raises
              /\ fetch_raises(i, r)
              /\ UNCHANGED cache
         ELSE /\ cache' = write_in(cache, "bilibili", r.page, i)
              /\ IF resp.body \in {"ret_error", "no_data", "no_list"}
                 THEN \* lines 104, 106: no 'data' or no 'list': movie_list stays []
                      fetch_returns(i, rs, <<>>)
                 ELSE IF resp.body = "bad_item"
                 THEN \* line 110: item['first_ep']['ep_id'] raises KeyError
                      fetch_raises(i, rs)
                 ELSE IF resp.n = 0
                 THEN \* line 112: gather of no task is done at once
                      fetch_returns(i, rs, <<>>)
                 ELSE fetch_gathers(i, rs, resp.n)

\* Tencent.get_movies lines 203-219: the status is never looked at
Tencent_response(i) ==
    /\ inv[i].pc = "request"
    /\ inv[i].platform = "tencent"
    /\ UNCHANGED params
    /\ \E resp \in Responses :
         LET r == [inv[i] EXCEPT !.resp = kind_of(resp)]
             rs == [r EXCEPT !.hist = @ \o <<"decoded", "snapshot">>]
         IN
         IF ~resp.transport \/ resp.body = "unparsable"
         THEN \* line 203 or line 205 (json.loads) raises
              /\ fetch_raises(i, r)
              /\ UNCHANGED cache
         ELSE /\ cache' = write_in(cache, "tencent", r.page, i)
              /\ IF resp.body \in {"ret_error", "no_data", "no_list", "bad_item"}
                 THEN \* line 210 ValueError; lines 212-216 KeyError
                      fetch_raises(i, rs)
                 ELSE IF resp.n = 0
                 THEN fetch_returns(i, rs, <<>>)
                 ELSE fetch_gathers(i, rs, resp.n)

\* IQiYi.raw_fetch_async lines 292-318: the status is never looked at and
\* there is no enrichment
IQiYi_response(i) ==
    /\ inv[i].pc = "request"
    /\ inv[i].platform = "iqiyi"
    /\ UNCHANGED params
    /\ \E resp \in Responses :
         LET r == [inv[i] EXCEPT !.resp = kind_of(resp)]
             rs == [r EXCEPT !.hist = @ \o <<"decoded", "snapshot">>]
         IN
         IF ~resp.transport \/ resp.body = "unparsable"
         THEN \* line 292 or line 293 (response.json()) raises
              /\ fetch_raises(i, r)
              /\ UNCHANGED cache
         ELSE /\ cache' = write_in(cache, "iqiyi", r.page, i)
              /\ IF resp.body \in {"ret_error", "no_data", "no_list", "bad_item"}
                 THEN \* line 296 KeyError; lines 297-315 TypeError, KeyError
                      fetch_raises(i, rs)
                 ELSE fetch_returns(i, rs, entities("iqiyi", r.req_page, resp.n))

\* -------------------------------------------------------------- enrichment
\* one enrichment sub-request (Bilibili.create_movie_entity, Tencent.
\* get_movie_detail) ends, with its entity or with an error; a task gather
\* started keeps running whatever became of the gather
enrichment_done(i, k, ok) ==
    /\ k \in DOMAIN inv[i].subs
    /\ inv[i].subs[k] = "pending"
    /\ inv' = [inv EXCEPT ![i].subs[k] = IF ok THEN "ok" ELSE "failed"]
    /\ UNCHANGED <<params, keys, batch_traces, db_traces, collection, cache, now, aside>>

AnyFailed(subs) == \E k \in DOMAIN subs : subs[k] = "failed"
AllOk(subs) == \A k \in DOMAIN subs : subs[k] = "ok"

\* (mutant) gather(*tasks, return_exceptions=True): the awaiter gets a list
\* once every task is done, failed or not
gather_return_exceptions(subs) ==
    IF \A k \in DOMAIN subs : subs[k] # "pending" THEN "list" ELSE "wait"

\* what asyncio.gather(*tasks) hands its awaiter: the first error as soon as
\* one task failed, else the list of all results once every task is done
gather_result(subs) ==
    IF AnyFailed(subs) THEN "raise" ELSE IF AllOk(subs) THEN "list" ELSE "wait"

\* Bilibili.handle_data line 112-113, Tencent.get_movies lines 219-221: the
\* awaited gather is done
gather_done(i) ==
    /\ inv[i].pc = "gather"
    /\ gather_result(inv[i].subs) # "wait"
    /\ UNCHANGED <<params, cache>>
    /\ LET r == inv[i] IN
       IF gather_result(inv[i].subs) = "raise"
       THEN fetch_raises(i, r)
       ELSE fetch_returns(i, r, entities(r.platform, r.req_page, Len(r.subs)))

\* ---------------------------------------------------------------- the sink
\* AsyncIOMotorCollection.insert_many rejects an empty list ("documents must
\* be a non-empty list"); any other insert may fail as well
insert_may_succeed(documents) == documents # <<>>
insert_may_fail(documents) == TRUE

\* (mutant) the persistence FINISHED event is recorded in a finally block, so
\* also when the insert raises
insert_raises_after_finished(i, r) ==
    /\ inv' = [inv EXCEPT ![i] = [r EXCEPT !.pc = "raised", !.error = "insert",
                                            !.hist = @ \o <<"insert_raised">>]]
    /\ db_traces' = put_db_trace(db_traces,
           TraceEvent(r.db_task_id, r.platform, r.page, pagesize(r.platform),
                      FINISHED, r.db_begin_time, strftime(now), i))
    /\ UNCHANGED collection

\* (mutant) a failed insert is tried again
insert_raises_retried(i, r) ==
    /\ inv' = [inv EXCEPT ![i] = [r EXCEPT !.pc = "insert", !.insert_calls = @ + 1,
                                            !.hist = @ \o <<"insert_raised",
                                                            "insert_start">>]]
    /\ UNCHANGED <<collection, db_traces>>

\* line 64 raises: nothing in abstract_run_with_checkpoint catches it, so the
\* invocation ends and the error reaches the caller of run_async
insert_raises(i, r) ==
    /\ inv' = [inv EXCEPT ![i] = [r EXCEPT !.pc = "raised", !.error = "insert",
                                            !.hist = @ \o <<"insert_raised">>]]
    /\ UNCHANGED <<collection, db_traces>>

\* insert_many gives each document it inserts an _id of its own
with_ids(i, documents) ==
    [k \in 1..Len(documents) |-> [documents[k] EXCEPT !.oid = <<i, k>>]]

\* (mutant) only the first document is written
insert_first_only(coll, documents) == coll \o SubSeq(documents, 1, 1)

\* (mutant) an upsert by content: a document the collection already holds is
\* not written again
insert_many_upsert(coll, documents) ==
    coll \o SelectSeq(documents,
                      LAMBDA d : \A k \in DOMAIN coll :
                          \/ coll[k].source # d.source
                          \/ coll[k].page # d.page
                          \/ coll[k].idx # d.idx)

\* what the collection holds after a successful insert_many(documents)
insert_many(coll, documents) == coll \o documents

\* line 64 ends; on success lines 65-68: record the persistence FINISHED and
\* sleep; on failure the error leaves abstract_run_with_checkpoint
insert_many_done(i) ==
    /\ inv[i].pc = "insert"
    /\ UNCHANGED <<params, keys, batch_traces, cache, now, aside>>
    /\ LET r == inv[i]
           done == [r EXCEPT !.documents = with_ids(i, r.documents),
                             !.hist = @ \o <<"insert_end">>]
       IN
       \/ /\ insert_may_succeed(r.documents)
          /\ collection' = insert_many(collection, with_ids(i, r.documents))
          /\ \/ /\ db_traces' = put_db_trace(db_traces,
                        TraceEvent(r.db_task_id, r.platform, r.page,
                                   pagesize(r.platform), FINISHED, r.db_begin_time,
                                   strftime(now), i))
                /\ inv' = [inv EXCEPT ![i] =
                              [done EXCEPT !.pc = "sleep",
                                           !.hist = @ \o <<"db_finished", "delay">>]]
             \/ \* line 65 raises
                /\ recorder = "faulty"
                /\ recorder_raises(i, done, "db_finished_failed")
                /\ UNCHANGED db_traces
       \/ /\ insert_may_fail(r.documents)
          /\ insert_raises(i, r)

\* (mutant) the delay never ends
sleep_never_done(i) ==
    /\ inv[i].pc = "sleep"
    /\ UNCHANGED vars

\* lines 68-69: asyncio.sleep(1) ends and the documents are returned
sleep_done(i) ==
    /\ inv[i].pc = "sleep"
    /\ inv' = [inv EXCEPT ![i] = [@ EXCEPT !.pc = "returned",
                                            !.hist = @ \o <<"return">>]]
    /\ UNCHANGED <<params, keys, batch_traces, db_traces, collection, cache, now, aside>>

\* the clock advances between steps
Tick ==
    /\ now < MaxTicks * 500
    /\ now' = now + 500
    /\ UNCHANGED <<inv, params, keys, batch_traces, db_traces, collection, cache, aside>>

Next ==
    \/ \E i \in Invs, page \in Pages : Bilibili_run_async(i, page)
    \/ \E i \in Invs, page \in Pages : Tencent_run_async(i, page)
    \/ \E i \in Invs, page \in Pages : IQiYi_run_async(i, page)
    \/ \E i \in Invs : Bilibili_session_get(i)
    \/ \E i \in Invs : Tencent_get_movies_post(i)
    \/ \E i \in Invs : IQiYi_session_get(i)
    \/ \E i \in Invs : Bilibili_response(i)
    \/ \E i \in Invs : Tencent_response(i)
    \/ \E i \in Invs : IQiYi_response(i)
    \/ \E i \in Invs, k \in 1..(MaxK + 1), ok \in BOOLEAN : enrichment_done(i, k, ok)
    \/ \E i \in Invs : gather_done(i)
    \/ \E i \in Invs : insert_many_done(i)
    \/ \E i \in Invs : sleep_done(i)
    \/ Tick

Spec == Init /\ [][Next]_vars

\* ------------------------------------------------------------- scheduling
\* the steps of invocation i that the event loop and the outside world take
\* once it is started: the loop runs every coroutine that can run, and every
\* request, sub-request and insert is answered in the end
Step(i) ==
    \/ Bilibili_session_get(i)
    \/ Tencent_get_movies_post(i)
    \/ IQiYi_session_get(i)
    \/ Bilibili_response(i)
    \/ Tencent_response(i)
    \/ IQiYi_response(i)
    \/ \E k \in 1..(MaxK + 1), ok \in BOOLEAN : enrichment_done(i, k, ok)
    \/ gather_done(i)
    \/ insert_many_done(i)
    \/ sleep_done(i)

\* a caller starts invocation i
Start(i) ==
    \E page \in Pages :
        \/ Bilibili_run_async(i, page)
        \/ Tencent_run_async(i, page)
        \/ IQiYi_run_async(i, page)

\* the invocations alone, the clock standing still: no step depends on it
NextFair == \E i \in Invs : Start(i) \/ Step(i)

SpecFair == Init /\ [][NextFair]_vars /\ \A i \in Invs : WF_vars(Step(i))

\* ------------------------------------------------------- a failing recorder
\* the same program run against a Trace Recorder whose writes may raise
InitRecorder ==
    /\ InitIngestion
    /\ collection = <<>>
    /\ recorder = "faulty"
    /\ movies = NoRequest
    /\ score = NoScore

SpecRecorder == InitRecorder /\ [][Next]_vars

\* ------------------------------------------------------------ the read API
\* fetch_router.py lines 11-12: page: Query(1, gt=0), pagesize: Query(20, gt=19)
page_gt == 0
pagesize_gt == 19

ReadPages == page_gt..MaxReadPage
ReadPagesizes == pagesize_gt..MaxPagesize
BatchSizes == {1, 20}

\* the batches the ingestion has inserted so far
Batches(coll) == IF coll = <<>> THEN 0 ELSE coll[Len(coll)].oid[1]

Min(a, b) == IF a < b THEN a ELSE b

\* line 25: collections.find(): a cursor over the whole collection, in the
\* order the store keeps (its natural order, the order of insertion)
find(coll) == [docs |-> coll, skip |-> 0, limit |-> 0]
cursor_skip(cursor, n) == [cursor EXCEPT !.skip = n]
cursor_limit(cursor, n) == [cursor EXCEPT !.limit = n]

\* line 26: cursor.to_list(length): what is left after the skip, cut at the
\* limit (0: no limit) and then at length
to_list(cursor, length) ==
    LET rest == SubSeq(cursor.docs, cursor.skip + 1, Len(cursor.docs))
        cut == IF cursor.limit = 0 THEN rest
               ELSE SubSeq(rest, 1, Min(cursor.limit, Len(rest)))
    IN  SubSeq(cut, 1, Min(length, Len(cut)))

\* (mutant) the skip counts the asked page in
skip_from_page(page, size) == page * size

\* line 24: skip = (page - 1) * pagesize
skip_of(page, size) == (page - 1) * size

\* lines 22-27
get_paginated_movies(coll, page, size) ==
    to_list(cursor_limit(cursor_skip(find(coll), skip_of(page, size)), size),
            size)

\* lines 10-16: the query validation turns down page <= 0 and pagesize <= 19
\* before the handler runs; the handler answers RP_2000001 with the data
\* (line 15 builds the RP_4040001 result and drops it, and to_list returns
\* a list, never None)
read_movies(page, size) ==
    /\ movies' = IF page > page_gt /\ size > pagesize_gt
                 THEN [page |-> page, pagesize |-> size, code |-> "RP_2000001",
                       data |-> get_paginated_movies(collection, page, size)]
                 ELSE [page |-> page, pagesize |-> size, code |-> "422",
                       data |-> <<>>]
    /\ UNCHANGED <<inv, params, keys, batch_traces, db_traces, collection, cache, now,
                   recorder, score>>

\* an invocation of the ingestion inserts a batch of n documents (line 64)
ingested(n) ==
    /\ Len(collection) + n <= MaxDocs
    /\ collection' = insert_many(collection,
           with_ids(Batches(collection) + 1, asdict(entities("iqiyi", 1, n))))
    /\ UNCHANGED <<inv, params, keys, batch_traces, db_traces, cache, now, aside>>

NextRead ==
    \/ \E page \in ReadPages, size \in ReadPagesizes : read_movies(page, size)
    \/ \E n \in BatchSizes : ingested(n)

SpecRead == Init /\ [][NextRead]_vars

\* --------------------------------------------------------- score coercion
\* the characters raw score strings are made of; "f" stands for the suffix
\* character line 240 removes
Digits == {"8", "5"}
Chars == Digits \cup {".", "-", "N", "f"}
Strings == UNION {[1..n -> Chars] : n \in 0..MaxLen}

RECURSIVE Pow10(_)
Pow10(n) == IF n = 0 THEN 1 ELSE 10 * Pow10(n - 1)

\* a float, kept as the integer value * 10^MaxLen
Float(scaled) == [kind |-> "float", scaled |-> scaled]
Raised(error) == [kind |-> "error", error |-> error]

\* what a JSON item holds under its score key: a string, a number, null, or
\* nothing at all
Str(chars) == [kind |-> "str", chars |-> chars]
Numbers == {[kind |-> "number", scaled |-> 8 * Pow10(MaxLen), repr |-> <<"8">>],
            [kind |-> "number", scaled |-> 85 * Pow10(MaxLen - 1),
             repr |-> <<"8", ".", "5">>]}
null == [kind |-> "null"]
missing == [kind |-> "missing"]
Values == {Str(chars) : chars \in Strings} \cup Numbers \cup {null, missing}

digit(ch) == IF ch = "8" THEN 8 ELSE 5

RECURSIVE Num(_)
Num(digits) ==
    IF digits = <<>> THEN 0
    ELSE 10 * Num(SubSeq(digits, 1, Len(digits) - 1)) + digit(digits[Len(digits)])

\* the unsigned part of a literal
Body(chars) == IF chars # <<>> /\ chars[1] = "-" THEN Tail(chars) ELSE chars

\* the strings float() takes: an optional sign, digits with at most one
\* point, at least one digit
IsFloatLiteral(chars) ==
    LET body == Body(chars) IN
    /\ \A k \in DOMAIN body : body[k] \in Digits \cup {"."}
    /\ \E k \in DOMAIN body : body[k] \in Digits
    /\ Cardinality({k \in DOMAIN body : body[k] = "."}) <= 1

float_of_literal(chars) ==
    LET body == Body(chars)
        dots == {k \in DOMAIN body : body[k] = "."}
        point == IF dots = {} THEN Len(body) + 1 ELSE CHOOSE k \in dots : TRUE
        whole == SubSeq(body, 1, point - 1)
        frac == SubSeq(body, point + 1, Len(body))
        abs == Num(whole) * Pow10(MaxLen) + Num(frac) * Pow10(MaxLen - Len(frac))
    IN  IF body # chars THEN 0 - abs ELSE abs

\* Python's float(value): ValueError for a string that is no literal,
\* TypeError for None
float(value) ==
    CASE value.kind = "str" ->
             IF IsFloatLiteral(value.chars) THEN Float(float_of_literal(value.chars))
             ELSE Raised("ValueError")
      [] value.kind = "number" -> Float(value.scaled)
      [] OTHER -> Raised("TypeError")

\* lines 24-29: only ValueError is caught
safe_float_conversion(value, default) ==
    IF float(value) = Raised("ValueError") THEN default ELSE float(value)

\* the default of lines 24, 122: -1.0
sentinel == Float(0 - Pow10(MaxLen))

\* dict.get(key, default): the default only when the key is missing
item_get(value, default) == IF value = missing THEN default ELSE value

\* str(value) and str.removesuffix(suffix) of lines 235-240
str(value) ==
    CASE value.kind = "str" -> value.chars
      [] value.kind = "number" -> value.repr
      [] OTHER -> <<"N", "o", "n", "e">>
removesuffix(chars, suffix) ==
    IF chars # <<>> /\ chars[Len(chars)] = suffix
    THEN SubSeq(chars, 1, Len(chars) - 1) ELSE chars

scored(by, value, result) ==
    /\ score' = [by |-> by, value |-> value, result |-> result]
    /\ UNCHANGED <<inv, params, keys, batch_traces, db_traces, collection, cache, now,
                   recorder, movies>>

\* Bilibili.create_movie_entity line 122
Bilibili_score(value) ==
    scored("bilibili", value, safe_float_conversion(item_get(value, Str(<<>>)), sentinel))

\* Tencent.get_movie_detail lines 235-240; a missing 'text' is a KeyError
\* before the coercion is called
Tencent_score(value) ==
    /\ value # missing
    /\ scored("tencent", value,
              safe_float_conversion(Str(removesuffix(str(value), "f")), sentinel))

\* IQiYi.raw_fetch_async line 306
IQiYi_score(value) ==
    scored("iqiyi", value, safe_float_conversion(item_get(value, Str(<<>>)), sentinel))

NextScore ==
    \/ \E value \in Values : Bilibili_score(value)
    \/ \E value \in Values : Tencent_score(value)
    \/ \E value \in Values : IQiYi_score(value)

SpecScore == Init /\ [][NextScore]_vars

\* ------------------------------------------------------------------ claims
\* the events a log holds under a task_id with a status
EventsOf(log, task_id, status) ==
    {k \in DOMAIN log : log[k].task_id = task_id /\ log[k].status = status}

\* the documents of the collection that invocation i inserted
InsertedBy(i) == {k \in DOMAIN collection : collection[k].oid[1] = i}

\* the insert of invocation i has succeeded
Inserted(i) == inv[i].pc \in {"sleep", "returned"}

\* every FINISHED event a log holds under a task_id ends no earlier than it began
EndsAfterBegin(log, task_id) ==
    \A k \in EventsOf(log, task_id, FINISHED) : log[k].end >= log[k].begin

\* C1: an invocation whose adapter returned K entities and whose insert
\* succeeded has added exactly K records to the sink, holds (and returns)
\* those K records, and has exactly one PENDING and one FINISHED event under
\* its batch task_id and under its persistence task_id, each FINISHED event
\* with end >= begin.
C1_RunPersistsKAndTracesPairs ==
    \A i \in Invs : Inserted(i) =>
        LET K == Len(inv[i].batch_results) IN
        /\ Cardinality(InsertedBy(i)) = K
        /\ Len(inv[i].documents) = K
        /\ \A k \in 1..K : \E c \in InsertedBy(i) : collection[c] = inv[i].documents[k]
        /\ Cardinality(EventsOf(batch_traces, inv[i].batch_task_id, PENDING)) = 1
        /\ Cardinality(EventsOf(batch_traces, inv[i].batch_task_id, FINISHED)) = 1
        /\ Cardinality(EventsOf(db_traces, inv[i].db_task_id, PENDING)) = 1
        /\ Cardinality(EventsOf(db_traces, inv[i].db_task_id, FINISHED)) = 1
        /\ EndsAfterBegin(batch_traces, inv[i].batch_task_id)
        /\ EndsAfterBegin(db_traces, inv[i].db_task_id)

\* an invocation has returned two or more records, and its persistence
\* FINISHED event ends later than it began
C1_Witness ==
    \E i \in Invs :
        /\ inv[i].pc = "returned"
        /\ Len(inv[i].batch_results) >= 2
        /\ \E k \in EventsOf(db_traces, inv[i].db_task_id, FINISHED) :
               db_traces[k].end > db_traces[k].begin

\* C2: an invocation whose adapter fetch raised has a PENDING and no FINISHED
\* event under its batch task_id, has created no persistence trace event and
\* allocated no persistence task_id, has never called the sink insert and
\* has left no record in the sink, and has ended with the error raised to
\* its caller.
C2_FetchErrorLeavesOrphanedPending ==
    \A i \in Invs : inv[i].fetch_result = "raised" =>
        /\ Cardinality(EventsOf(batch_traces, inv[i].batch_task_id, PENDING)) = 1
        /\ EventsOf(batch_traces, inv[i].batch_task_id, FINISHED) = {}
        /\ \A k \in DOMAIN db_traces : db_traces[k].by # i
        /\ inv[i].db_task_id = NoKey
        /\ inv[i].insert_calls = 0
        /\ InsertedBy(i) = {}
        /\ inv[i].pc = "raised"
        /\ inv[i].error = "fetch"

\* a fetch has raised while another invocation has put records into the sink
C2_Witness ==
    \E i, j \in Invs :
        /\ inv[i].fetch_result = "raised"
        /\ inv[j].pc = "returned"
        /\ collection # <<>>

\* C3: an invocation whose sink insert failed has a PENDING and no FINISHED
\* event under its persistence task_id, has both the PENDING and the
\* FINISHED event under its batch task_id, and has ended with the error
\* raised to its caller, no record of it in the sink.
C3_InsertErrorLeavesOrphanedDbPending ==
    \A i \in Invs : inv[i].error = "insert" =>
        /\ Cardinality(EventsOf(db_traces, inv[i].db_task_id, PENDING)) = 1
        /\ EventsOf(db_traces, inv[i].db_task_id, FINISHED) = {}
        /\ Cardinality(EventsOf(batch_traces, inv[i].batch_task_id, PENDING)) = 1
        /\ Cardinality(EventsOf(batch_traces, inv[i].batch_task_id, FINISHED)) = 1
        /\ inv[i].pc = "raised"
        /\ InsertedBy(i) = {}

\* the insert of a non-empty list of documents has failed
C3_Witness ==
    \E i \in Invs : inv[i].error = "insert" /\ inv[i].documents # <<>>

\* the task_ids under which a log holds events
TaskIds(log) == {log[k].task_id : k \in DOMAIN log}

\* C4: in each trace log every task_id has at most one PENDING and at most
\* one FINISHED event, every FINISHED event comes after a PENDING event of
\* its task_id, and no PENDING event comes after a FINISHED event of its
\* task_id.
C4_TraceIsPendingThenFinished ==
    \A log \in {batch_traces, db_traces} : \A id \in TaskIds(log) :
        /\ Cardinality(EventsOf(log, id, PENDING)) <= 1
        /\ Cardinality(EventsOf(log, id, FINISHED)) <= 1
        /\ \A f \in EventsOf(log, id, FINISHED) :
               \E q \in EventsOf(log, id, PENDING) : q < f
        /\ \A q \in EventsOf(log, id, PENDING) :
               \A f \in EventsOf(log, id, FINISHED) : q < f

\* both logs hold a complete pair and an orphaned PENDING event at once
C4_Witness ==
    \E log \in {batch_traces, db_traces} : \E a, b \in TaskIds(log) :
        /\ EventsOf(log, a, FINISHED) # {}
        /\ EventsOf(log, b, FINISHED) = {}
        /\ \E i \in Invs : inv[i].pc = "raised"

RECURSIVE SumInserted(_)
\* the entity counts of the invocations in S whose insert succeeded, summed
SumInserted(S) ==
    IF S = {} THEN 0
    ELSE LET i == CHOOSE x \in S : TRUE IN
         (IF Inserted(i) THEN Len(inv[i].batch_results) ELSE 0)
             + SumInserted(S \ {i})

\* the documents of the collection with the content of document d
SameContent(d) ==
    {k \in DOMAIN collection :
        /\ collection[k].source = d.source
        /\ collection[k].page = d.page
        /\ collection[k].idx = d.idx}

\* C5: the sink holds as many records as the invocations whose insert
\* succeeded had entities, in sum; every record returned by an invocation is
\* in the sink once per invocation that inserted a record of the same
\* content, so two invocations for one source and page with the same K
\* entities leave 2K records.
C5_SinkAppendsWithoutDedup ==
    /\ Len(collection) = SumInserted(Invs)
    /\ \A i \in Invs : Inserted(i) =>
          \A k \in DOMAIN inv[i].documents :
              Cardinality(SameContent(inv[i].documents[k])) =
                  Cardinality({j \in Invs :
                      /\ Inserted(j)
                      /\ inv[j].platform = inv[i].platform
                      /\ inv[j].req_page = inv[i].req_page
                      /\ Len(inv[j].batch_results) >= inv[i].documents[k].idx})

\* two invocations for the same source and page, each with the same K >= 1
\* entities, have both inserted, and the sink holds 2K records
C5_Witness ==
    \E i, j \in Invs :
        /\ i # j
        /\ Inserted(i) /\ Inserted(j)
        /\ inv[i].platform = inv[j].platform
        /\ inv[i].page = inv[j].page
        /\ inv[i].req_page = inv[j].req_page
        /\ Len(inv[i].batch_results) >= 1
        /\ Len(inv[i].batch_results) = Len(inv[j].batch_results)
        /\ Len(collection) = 2 * Len(inv[i].batch_results)

\* C6: an invocation whose adapter returned no entity has called the sink
\* insert once, with the empty list, and has a PENDING event under its
\* persistence task_id; once the insert has ended, it has the FINISHED event
\* too.
C6_EmptyBatchStillEmitsDbPair ==
    \A i \in Invs :
        (inv[i].fetch_result = "returned" /\ inv[i].batch_results = <<>>) =>
            /\ inv[i].insert_calls = 1
            /\ inv[i].documents = <<>>
            /\ Cardinality(EventsOf(db_traces, inv[i].db_task_id, PENDING)) = 1
            /\ inv[i].pc # "insert" =>
                   Cardinality(EventsOf(db_traces, inv[i].db_task_id, FINISHED)) = 1

\* C7: an invocation one of whose enrichment sub-requests failed never has
\* its fetch return: it holds no entity and no document, has put no record
\* into the sink and has no FINISHED event under its batch task_id; it is
\* waiting in the gather or has ended with the error raised.
C7_EnrichmentJoinIsAllOrNothing ==
    \A i \in Invs : AnyFailed(inv[i].subs) =>
        /\ inv[i].fetch_result # "returned"
        /\ inv[i].batch_results = <<>>
        /\ inv[i].documents = <<>>
        /\ inv[i].insert_calls = 0
        /\ InsertedBy(i) = {}
        /\ EventsOf(batch_traces, inv[i].batch_task_id, FINISHED) = {}
        /\ inv[i].pc \in {"gather", "raised"}
        /\ inv[i].pc = "raised" => inv[i].error = "fetch"

\* a fetch has raised with one sub-request failed and another one succeeded
C7_Witness ==
    \E i \in Invs :
        /\ inv[i].pc = "raised"
        /\ \E k, m \in DOMAIN inv[i].subs :
               inv[i].subs[k] = "failed" /\ inv[i].subs[m] = "ok"

\* C8: an invocation whose top-level response was a non-success one, or
\* lacked the required structure, has had its fetch raise: it has a PENDING
\* and no FINISHED event under its batch task_id and has not called the sink
\* insert.
C8_BadResponseIsTerminal ==
    \A i \in Invs : inv[i].resp \in {"non_success", "missing"} =>
        /\ inv[i].fetch_result = "raised"
        /\ Cardinality(EventsOf(batch_traces, inv[i].batch_task_id, PENDING)) = 1
        /\ EventsOf(batch_traces, inv[i].batch_task_id, FINISHED) = {}
        /\ inv[i].insert_calls = 0

C10_TaskIdsAreNeverReused ==
    /\ \A i, j \in Invs : i # j =>
          /\ inv[i].batch_task_id # NoKey => inv[i].batch_task_id # inv[j].batch_task_id
          /\ inv[i].db_task_id # NoKey => inv[i].db_task_id # inv[j].db_task_id
    /\ \A a, b \in DOMAIN batch_traces :
          batch_traces[a].task_id = batch_traces[b].task_id =>
              batch_traces[a].by = batch_traces[b].by
    /\ \A a, b \in DOMAIN db_traces :
          db_traces[a].task_id = db_traces[b].task_id =>
              db_traces[a].by = db_traces[b].by
    /\ \A a \in DOMAIN batch_traces :
          /\ batch_traces[a].task_id = inv[batch_traces[a].by].batch_task_id
          /\ batch_traces[a].task_id[1] = BATCH_TASK
    /\ \A a \in DOMAIN db_traces :
          /\ db_traces[a].task_id = inv[db_traces[a].by].db_task_id
          /\ db_traces[a].task_id[1] = DB_TASK

\* two invocations are awaiting their inserts at the same time, each with a
\* batch and a persistence task_id allocated
C10_Witness ==
    \E i, j \in Invs :
        /\ i # j
        /\ inv[i].pc = "insert" /\ inv[j].pc = "insert"
        /\ Len(batch_traces) = 4 /\ Len(db_traces) = 2

\* whether step e is in the history h of an invocation
Has(h, e) == \E k \in DOMAIN h : h[k] = e

\* C11: a failure of a Trace Recorder write does not abort the operation it
\* instruments: an invocation whose batch PENDING write raised has still
\* started its fetch, and one whose persistence PENDING write raised has
\* still started its sink insert.
C11_RecorderFailureDoesNotAbort ==
    \A i \in Invs :
        /\ Has(inv[i].hist, "batch_pending_failed") => Has(inv[i].hist, "fetch_start")
        /\ Has(inv[i].hist, "db_pending_failed") => Has(inv[i].hist, "insert_start")

\* the documents at insertion positions lo+1 .. hi of the collection
Slice(coll, lo, hi) == [k \in 1..(IF hi > lo THEN hi - lo ELSE 0) |-> coll[lo + k]]

\* C12: get_paginated_movies(page, pagesize) with page >= 1 and pagesize >= 20
\* returns exactly the persisted records at insertion positions
\* (page-1)*pagesize up to but excluding page*pagesize, in insertion order and
\* at most pagesize of them; an empty range gives an empty list with the
\* success code.
C12_ReadReturnsThePageSlice ==
    \A page \in ReadPages, size \in ReadPagesizes :
        (page >= 1 /\ size >= 20) =>
            LET got == get_paginated_movies(collection, page, size)
                lo == (page - 1) * size
                hi == Min(page * size, Len(collection))
            IN  /\ got = Slice(collection, lo, hi)
                /\ Len(got) <= size
                /\ (movies.page = page /\ movies.pagesize = size) =>
                       /\ movies.code = "RP_2000001"
                       /\ \E n \in 0..Len(got) : movies.data = SubSeq(got, 1, n)

\* the second page was read in full, with documents stored beyond it
C12_Witness ==
    /\ movies.page = 2
    /\ movies.code = "RP_2000001"
    /\ Len(movies.data) = movies.pagesize
    /\ Len(collection) > 2 * movies.pagesize
    /\ movies.data = get_paginated_movies(collection, 2, movies.pagesize)

\* the raw score is numeric: a number, or a string that spells one
Numeric(value) ==
    \/ value.kind = "number"
    \/ value.kind = "str" /\ IsFloatLiteral(value.chars)

\* C13: score coercion never raises: a numeric string maps to its value, and
\* every non-numeric input (a non-numeric string, an empty string, a missing
\* score field, a null score value) maps to the sentinel -1.0.
C13_ScoreCoercionNeverRaises ==
    score.by # "none" =>
        /\ score.result.kind = "float"
        /\ score.by \in {"bilibili", "iqiyi"} =>
              /\ Numeric(score.value) => score.result = float(score.value)
              /\ ~Numeric(score.value) => score.result = sentinel

\* the steps of abstract_run_with_checkpoint, in the order of lines 44-69
StepOrder ==
    <<"batch_pending", "fetch_start", "fetch_end", "batch_finished", "db_pending",
      "insert_start", "insert_end", "db_finished", "delay", "return">>

IsStep(e) == \E k \in DOMAIN StepOrder : StepOrder[k] = e

\* the steps invocation i has taken so far, in the order it took them
StepsOf(i) == SelectSeq(inv[i].hist, IsStep)

\* the events of a log that invocation i recorded with a status
RecordedBy(log, i, status) == {k \in DOMAIN log : log[k].by = i /\ log[k].status = status}

\* C14: within one invocation of abstract_run_with_checkpoint the steps occur
\* in the strict order batch PENDING, fetch start and end, batch FINISHED,
\* persistence PENDING, insert start and end, persistence FINISHED, delay,
\* return; persistence PENDING is never recorded before batch FINISHED and the
\* insert never starts before persistence PENDING.
C14_StepsInStrictOrder ==
    \A i \in Invs :
        /\ StepsOf(i) = SubSeq(StepOrder, 1, Len(StepsOf(i)))
        /\ (inv[i].pc # "idle") = (RecordedBy(batch_traces, i, PENDING) # {})
        /\ RecordedBy(batch_traces, i, FINISHED) # {} => inv[i].fetch_result = "returned"
        /\ RecordedBy(db_traces, i, PENDING) # {} =>
               RecordedBy(batch_traces, i, FINISHED) # {}
        /\ inv[i].insert_calls > 0 => RecordedBy(db_traces, i, PENDING) # {}
        /\ InsertedBy(i) # {} => inv[i].insert_calls > 0
        /\ (RecordedBy(db_traces, i, FINISHED) # {}) = Inserted(i)
        /\ inv[i].pc = "returned" => Has(inv[i].hist, "delay")

\* an invocation with enrichment has gone through every step and returned,
\* while another one is in the middle of its own steps
C14_Witness ==
    \E i, j \in Invs :
        /\ inv[i].pc = "returned"
        /\ inv[i].subs # <<>>
        /\ StepsOf(i) = StepOrder
        /\ inv[j].pc = "insert"

\* the place of step e in the history h (0: not there)
IndexOf(h, e) == IF Has(h, e) THEN CHOOSE k \in DOMAIN h : h[k] = e ELSE 0

\* C15: a snapshot for (source, page) is written only if the adapter fetch of
\* that invocation succeeds, and before the batch FINISHED event is recorded;
\* an invocation whose fetch fails leaves no snapshot written by it.
C15_SnapshotOnlyOnFetchSuccess ==
    \A i \in Invs :
        /\ inv[i].fetch_result = "raised" =>
               /\ ~Has(inv[i].hist, "snapshot")
               /\ cache[<<inv[i].platform, inv[i].page>>] # i
        /\ Has(inv[i].hist, "snapshot") /\ Has(inv[i].hist, "batch_finished") =>
               IndexOf(inv[i].hist, "snapshot") < IndexOf(inv[i].hist, "batch_finished")

\* C16: every enrichment sub-request issued inside a fetch has completed
\* before that fetch returns to the orchestrator, for every outcome of the
\* fetch: once the fetch call has ended, none of its sub-requests is still
\* in flight.
C16_NoSubRequestOutlivesFetch ==
    \A i \in Invs : inv[i].fetch_result # "none" =>
        \A k \in DOMAIN inv[i].subs : inv[i].subs[k] # "pending"

\* invocation i has ended: it returned to its caller or an error left it
Ended(i) == inv[i].pc \in {"returned", "raised"}

Count(h, e) == Cardinality({k \in DOMAIN h : h[k] = e})

\* C18: there is no retry or resume: an invocation calls the adapter fetch
\* exactly once and the sink insert at most once, and once its fetch or its
\* insert has failed it takes no further step: no fetch, no insert, no trace
\* event and no document comes from it any more.
C18_NoRetryNoResume ==
    [][\A i \in Invs :
          /\ inv'[i].insert_calls <= 1
          /\ Count(inv'[i].hist, "insert_start") = inv'[i].insert_calls
          /\ Count(inv'[i].hist, "fetch_start") = (IF inv'[i].pc = "idle" THEN 0 ELSE 1)
          /\ inv[i].pc = "raised" =>
                /\ inv'[i].pc = "raised"
                /\ inv'[i].hist = inv[i].hist
                /\ inv'[i].insert_calls = inv[i].insert_calls
                /\ \A status \in {PENDING, FINISHED} :
                      /\ RecordedBy(batch_traces', i, status)
                            = RecordedBy(batch_traces, i, status)
                      /\ RecordedBy(db_traces', i, status)
                            = RecordedBy(db_traces, i, status)
                /\ {k \in DOMAIN collection' : collection'[k].oid[1] = i} = InsertedBy(i)
      ]_vars

\* one invocation ended on a failed insert and one on a failed fetch, each
\* after a single call, and time has passed since
C18_Witness ==
    \E i, j \in Invs :
        /\ inv[i].pc = "raised" /\ inv[i].error = "insert" /\ inv[i].insert_calls = 1
        /\ inv[i].documents # <<>>
        /\ inv[j].pc = "raised" /\ inv[j].error = "fetch" /\ inv[j].insert_calls = 0
        /\ now > 0

\* in a log, the FINISHED event of a task_id repeats what its PENDING event
\* says; PENDING events have a begin and no end, FINISHED events have an end
PairsAgree(log) ==
    /\ \A p, f \in DOMAIN log :
          (/\ log[p].status = PENDING
           /\ log[f].status = FINISHED
           /\ log[p].task_id = log[f].task_id) =>
              /\ log[f].source = log[p].source
              /\ log[f].batch = log[p].batch
              /\ log[f].pagesize = log[p].pagesize
              /\ log[f].begin = log[p].begin
    /\ \A k \in DOMAIN log :
          /\ log[k].begin # NoTime
          /\ (log[k].end # NoTime) = (log[k].status = FINISHED)

\* C19: for every task_id that has both events, the FINISHED event carries
\* the same source, batch index, page size and begin timestamp as the PENDING
\* event; the PENDING event has begin set and no end, and only the FINISHED
\* event has an end.
C19_FinishedRepeatsPending ==
    /\ PairsAgree(batch_traces)
    /\ PairsAgree(db_traces)

\* a batch task_id and a persistence task_id each have both events, the
\* FINISHED one ending later than the begin it shares with the PENDING one
C19_Witness ==
    /\ \E p, f \in DOMAIN batch_traces :
          /\ batch_traces[p].status = PENDING /\ batch_traces[f].status = FINISHED
          /\ batch_traces[p].task_id = batch_traces[f].task_id
          /\ batch_traces[f].end > batch_traces[f].begin
    /\ \E p, f \in DOMAIN db_traces :
          /\ db_traces[p].status = PENDING /\ db_traces[f].status = FINISHED
          /\ db_traces[p].task_id = db_traces[f].task_id
          /\ db_traces[f].end > db_traces[f].begin

\* something of invocation i has failed: its fetch, one of its enrichment
\* sub-requests, or its insert
Failed(i) ==
    \/ inv[i].pc = "raised"
    \/ \E k \in DOMAIN inv[i].subs : inv[i].subs[k] = "failed"

\* C20: under fair scheduling, with every fetch, sub-request and insert
\* answered in the end, every started invocation eventually ends, returning
\* or raising; and one in which nothing fails eventually has a FINISHED
\* event for its batch task_id and for its persistence task_id.
C20_EveryInvocationTerminates ==
    \A i \in Invs :
        /\ (inv[i].pc # "idle") ~> Ended(i)
        /\ (inv[i].pc # "idle") ~>
               \/ Failed(i)
               \/ /\ EventsOf(batch_traces, inv[i].batch_task_id, FINISHED) # {}
                  /\ EventsOf(db_traces, inv[i].db_task_id, FINISHED) # {}

\* an invocation with enrichment has returned with both FINISHED events
\* while another one has raised
C20_Witness ==
    \E i, j \in Invs :
        /\ inv[i].pc = "returned" /\ inv[i].subs # <<>>
        /\ EventsOf(batch_traces, inv[i].batch_task_id, FINISHED) # {}
        /\ EventsOf(db_traces, inv[i].db_task_id, FINISHED) # {}
        /\ inv[j].pc = "raised"

====
